---- MODULE Spec2Model ----
(***************************************************************************)
(* The 3x3 sliding-tile puzzle of src/main.rs: Board (new, shuffle,        *)
(* is_solved, get_blank_position, move_tile) and the interactive session   *)
(* of main.  One action per loop iteration of shuffle and per step of      *)
(* main.                                                                   *)
(***************************************************************************)
EXTENDS Integers, Sequences, FiniteSets

VARIABLES tiles,          \* Board.tiles: a Vec<u8>, here a function on 0..len-1
          pc,             \* position of main: "shuffle", "enable_raw", ...
          previous_move,  \* shuffle's local: None or Some(direction)
          iter,           \* iterations of shuffle's for loop completed
          swaps,          \* history: calls of tiles.swap made inside shuffle
          before,         \* history: tiles when move_tile was last entered
          before_prev,    \* history: previous_move when that call was drawn in shuffle
          direction,      \* history: argument of the last move_tile call
          raw_mode,       \* terminal: raw mode enabled
          alt_screen,     \* terminal: alternate screen entered
          rendered,       \* terminal: the tiles last painted by render_board
          events,         \* input events read so far
          last_event,     \* history: class of the last input event read
          won             \* "You won!" was printed

vars == <<tiles, pc, previous_move, iter, swaps, before, before_prev, direction,
          raw_mode, alt_screen, rendered, events, last_event, won>>

\* ---------------------------------------------------------------- bounds

\* At most MaxSwaps iterations of shuffle may change the board.
MaxSwaps == 4

\* At most MaxEvents input events are read in the session.
MaxEvents == 3

\* ------------------------------------------------------------- constants

BOARD_SIZE == 3

\* for _ in 0..100
SHUFFLE_ITERATIONS == 100

\* Option<T>: None is the empty set, Some(x) the singleton.
None == {}

Some(x) == {x}

unwrap(opt) == CHOOSE x \in opt : TRUE

Directions == {"Up", "Down", "Left", "Right"}

\* ------------------------------------------------------------------ Board

\* A board collected from 0..=8: the blank first.
new_blank_first == [i \in 0..8 |-> i]

\* Board::new: (1..=8).collect(), then push(0).
new == [i \in 0..8 |-> IF i < 8 THEN i + 1 ELSE 0]

\* Vec::len
len(t) == Cardinality(DOMAIN t)

\* The array literal is_solved compares with.
SOLVED_LITERAL == <<1, 2, 3, 4, 5, 6, 7, 8, 0>>

\* is_solved comparing with the blank-first order 0, 1, ..., 8.
is_solved_blank_first(t) ==
    /\ len(t) = Len(SOLVED_LITERAL)
    /\ \A i \in DOMAIN t : t[i] = i

\* Board::is_solved: Vec == array, equal lengths and equal elements in order.
is_solved(t) ==
    /\ len(t) = Len(SOLVED_LITERAL)
    /\ \A i \in DOMAIN t : t[i] = SOLVED_LITERAL[i + 1]

\* A position counted from one.
position_blank_one_based(t) ==
    LET hits == {i \in DOMAIN t : t[i] = 0}
    IN  IF hits = {} THEN None
        ELSE Some(1 + CHOOSE i \in hits : \A j \in hits : i <= j)

\* iter().position(|&tile| tile == 0): the first index holding 0, if any.
position_blank(t) ==
    LET hits == {i \in DOMAIN t : t[i] = 0}
    IN  IF hits = {} THEN None
        ELSE Some(CHOOSE i \in hits : \A j \in hits : i <= j)

\* Board::get_blank_position (the unwrap panics on None; callers test first).
get_blank_position(t) == unwrap(position_blank(t))

\* usize::checked_add: blank_pos < 9, so the sum never overflows usize.
checked_add(a, b) == Some(a + b)

\* checked_sub refusing a difference of zero.
checked_sub_positive(a, b) == IF a <= b THEN None ELSE Some(a - b)

\* usize::checked_sub: None when the difference would be negative.
checked_sub(a, b) == IF a < b THEN None ELSE Some(a - b)

\* The match without the column filter on Left: the blank wraps to the next row.
tile_to_move_pos_unfiltered(blank_pos, d) ==
    CASE d = "Up"    -> checked_add(blank_pos, BOARD_SIZE)
      [] d = "Down"  -> checked_sub(blank_pos, BOARD_SIZE)
      [] d = "Left"  -> checked_add(blank_pos, 1)
      [] d = "Right" -> {pos \in checked_sub(blank_pos, 1) :
                            pos % BOARD_SIZE # BOARD_SIZE - 1}

\* The match with Up and Down exchanged: the blank moves the other way.
tile_to_move_pos_flipped(blank_pos, d) ==
    CASE d = "Up"    -> checked_sub(blank_pos, BOARD_SIZE)
      [] d = "Down"  -> checked_add(blank_pos, BOARD_SIZE)
      [] d = "Left"  -> {pos \in checked_add(blank_pos, 1) : pos % BOARD_SIZE # 0}
      [] d = "Right" -> {pos \in checked_sub(blank_pos, 1) :
                            pos % BOARD_SIZE # BOARD_SIZE - 1}

\* The match with a row stride one too long for Up.
tile_to_move_pos_stride(blank_pos, d) ==
    CASE d = "Up"    -> checked_add(blank_pos, BOARD_SIZE + 1)
      [] d = "Down"  -> checked_sub(blank_pos, BOARD_SIZE)
      [] d = "Left"  -> {pos \in checked_add(blank_pos, 1) : pos % BOARD_SIZE # 0}
      [] d = "Right" -> {pos \in checked_sub(blank_pos, 1) :
                            pos % BOARD_SIZE # BOARD_SIZE - 1}

\* The match of move_tile: the index of the tile that moves into the blank.
tile_to_move_pos(blank_pos, d) ==
    CASE d = "Up"    -> checked_add(blank_pos, BOARD_SIZE)
      [] d = "Down"  -> checked_sub(blank_pos, BOARD_SIZE)
      [] d = "Left"  -> {pos \in checked_add(blank_pos, 1) : pos % BOARD_SIZE # 0}
      [] d = "Right" -> {pos \in checked_sub(blank_pos, 1) :
                            pos % BOARD_SIZE # BOARD_SIZE - 1}

\* A swap that copies one way only: the blank is overwritten.
swap_overwrite(t, a, b) == [t EXCEPT ![a] = t[b]]

\* Vec::swap
swap(t, a, b) == [t EXCEPT ![a] = t[b], ![b] = t[a]]

\* Board::move_tile: the tiles after the call.
move_tile(t, d) ==
    LET blank_pos == get_blank_position(t)
        src       == tile_to_move_pos(blank_pos, d)
    IN  IF src # None /\ unwrap(src) < len(t)
        THEN swap(t, blank_pos, unwrap(src))
        ELSE t

\* ---------------------------------------------------------------- shuffle

possible_moves == <<"Up", "Down", "Left", "Right">>

\* The candidates without the retain.
moves_unfiltered(prev) == possible_moves

\* moves = possible_moves.clone(); retain(|&m| m != prev_move) when Some.
moves(prev) ==
    IF prev = None THEN possible_moves
    ELSE LET keep(m) == m # unwrap(prev) IN SelectSeq(possible_moves, keep)

\* A loop that runs once more.
loop_continues_inclusive(i) == i <= SHUFFLE_ITERATIONS

\* for _ in 0..100: the loop body runs while fewer than 100 iterations are done.
loop_continues(i) == i < SHUFFLE_ITERATIONS

NoFrame == <<>>

Init ==
    /\ tiles = new
    /\ pc = "shuffle"
    /\ previous_move = None
    /\ iter = 0
    /\ swaps = 0
    /\ before = new
    /\ before_prev = None
    /\ direction = None
    /\ raw_mode = FALSE
    /\ alt_screen = FALSE
    /\ rendered = NoFrame
    /\ events = 0
    /\ last_event = "none"
    /\ won = FALSE

\* One call self.move_tile(d), then main continues at `next`.  A board without
\* a blank makes get_blank_position panic.
CallMoveTile(d, next) ==
    IF position_blank(tiles) = None
    THEN /\ pc' = "panicked"
         /\ UNCHANGED <<tiles, before, direction>>
    ELSE /\ tiles' = move_tile(tiles, d)
         /\ before' = tiles
         /\ direction' = Some(d)
         /\ pc' = next

\* One iteration of shuffle's loop; the last one returns to main.
ShuffleStep ==
    /\ pc = "shuffle"
    /\ loop_continues(iter)
    /\ LET mv == moves(previous_move)
       IN  IF Len(mv) = 0
           THEN /\ pc' = "panicked"
                /\ UNCHANGED <<tiles, previous_move, iter, swaps, before,
                               before_prev, direction>>
           ELSE \E k \in 1..Len(mv) :
                  /\ swaps < MaxSwaps \/ move_tile(tiles, mv[k]) = tiles
                  /\ CallMoveTile(mv[k],
                        IF loop_continues(iter + 1) THEN "shuffle" ELSE "enable_raw")
                  /\ previous_move' = Some(mv[k])
                  /\ before_prev' = previous_move
                  /\ iter' = iter + 1
                  /\ swaps' = IF tiles' # tiles THEN swaps + 1 ELSE swaps
    /\ UNCHANGED <<raw_mode, alt_screen, rendered, events, last_event, won>>

\* -------------------------------------------------------------------- main

\* enable_raw_mode()?
EnableRawMode ==
    /\ pc = "enable_raw"
    /\ \/ raw_mode' = TRUE /\ pc' = "enter_alt"
       \/ raw_mode' = raw_mode /\ pc' = "failed"
    /\ UNCHANGED <<tiles, previous_move, iter, swaps, before, before_prev,
                   direction, alt_screen, rendered, events,
                   last_event, won>>

\* execute!(io::stdout(), EnterAlternateScreen)?
EnterAlternateScreen ==
    /\ pc = "enter_alt"
    /\ \/ alt_screen' = TRUE /\ pc' = "render"
       \/ alt_screen' = alt_screen /\ pc' = "failed"
    /\ UNCHANGED <<tiles, previous_move, iter, swaps, before, before_prev,
                   direction, raw_mode, rendered, events,
                   last_event, won>>

\* render_board(&board)?: paints the tiles, or fails and main returns the error.
RenderBoard ==
    /\ pc = "render"
    /\ \/ rendered' = tiles /\ pc' = "read"
       \/ rendered' = rendered /\ pc' = "failed"
    /\ UNCHANGED <<tiles, previous_move, iter, swaps, before, before_prev,
                   direction, raw_mode, alt_screen, events,
                   last_event, won>>

\* A loop without the solved check's break.
AfterKeyNeverBreaks(t) == "render"

\* After the match of a key event: if board.is_solved() { println!; sleep; break }
AfterKey(t) == IF is_solved(t) THEN "leave_alt" ELSE "render"

\* An arrow key whose solved check runs before the move.
ReadArrowCheckFirst ==
    /\ pc = "read"
    /\ events < MaxEvents
    /\ \E d \in Directions :
         /\ CallMoveTile(d, AfterKey(tiles))
         /\ won' = (pc' = "leave_alt")
    /\ last_event' = "Arrow"
    /\ events' = events + 1
    /\ UNCHANGED <<previous_move, iter, swaps, before_prev, raw_mode,
                   alt_screen, rendered>>

\* An arrow key whose move is painted before the solved check.
ReadArrowRepaints ==
    /\ pc = "read"
    /\ events < MaxEvents
    /\ \E d \in Directions :
         /\ CallMoveTile(d, AfterKey(move_tile(tiles, d)))
         /\ won' = (pc' = "leave_alt")
    /\ rendered' = tiles'
    /\ last_event' = "Arrow"
    /\ events' = events + 1
    /\ UNCHANGED <<previous_move, iter, swaps, before_prev, raw_mode,
                   alt_screen>>

\* event::read()? yields an arrow key: move_tile, then the solved check.
ReadArrow ==
    /\ pc = "read"
    /\ events < MaxEvents
    /\ \E d \in Directions :
         /\ CallMoveTile(d, AfterKey(move_tile(tiles, d)))
         /\ won' = (pc' = "leave_alt")
    /\ last_event' = "Arrow"
    /\ events' = events + 1
    /\ UNCHANGED <<previous_move, iter, swaps, before_prev, raw_mode,
                   alt_screen, rendered>>

\* Esc or 'q' without the break: the solved check still runs.
ReadQuitFallsThrough ==
    /\ pc = "read"
    /\ events < MaxEvents
    /\ pc' = AfterKey(tiles)
    /\ won' = is_solved(tiles)
    /\ last_event' = "Quit"
    /\ events' = events + 1
    /\ UNCHANGED <<tiles, previous_move, iter, swaps, before, before_prev,
                   direction, raw_mode, alt_screen, rendered>>

\* event::read()? yields Esc or 'q': break, before the solved check.
ReadQuit ==
    /\ pc = "read"
    /\ events < MaxEvents
    /\ pc' = "leave_alt"
    /\ last_event' = "Quit"
    /\ events' = events + 1
    /\ UNCHANGED <<tiles, previous_move, iter, swaps, before, before_prev,
                   direction, raw_mode, alt_screen, rendered, won>>

\* event::read()? yields any other key: no move, then the solved check.
ReadOtherKey ==
    /\ pc = "read"
    /\ events < MaxEvents
    /\ pc' = AfterKey(tiles)
    /\ won' = is_solved(tiles)
    /\ last_event' = "Other"
    /\ events' = events + 1
    /\ UNCHANGED <<tiles, previous_move, iter, swaps, before, before_prev,
                   direction, raw_mode, alt_screen, rendered>>

\* event::read()? yields an event that is not a key (mouse, resize, ...):
\* the if let does not match and the loop renders again.
ReadNonKey ==
    /\ pc = "read"
    /\ events < MaxEvents
    /\ pc' = "render"
    /\ last_event' = "NonKey"
    /\ events' = events + 1
    /\ UNCHANGED <<tiles, previous_move, iter, swaps, before, before_prev,
                   direction, raw_mode, alt_screen, rendered, won>>

\* event::read()? fails: main returns the error.
ReadFails ==
    /\ pc = "read"
    /\ events < MaxEvents
    /\ pc' = "failed"
    /\ last_event' = "Failed"
    /\ events' = events + 1
    /\ UNCHANGED <<tiles, previous_move, iter, swaps, before, before_prev,
                   direction, raw_mode, alt_screen, rendered, won>>

\* execute!(io::stdout(), LeaveAlternateScreen)?
LeaveAlternateScreen ==
    /\ pc = "leave_alt"
    /\ \/ alt_screen' = FALSE /\ pc' = "disable_raw"
       \/ alt_screen' = alt_screen /\ pc' = "failed"
    /\ UNCHANGED <<tiles, previous_move, iter, swaps, before, before_prev,
                   direction, raw_mode, rendered, events,
                   last_event, won>>

\* disable_raw_mode()?; Ok(())
DisableRawMode ==
    /\ pc = "disable_raw"
    /\ \/ raw_mode' = FALSE /\ pc' = "done"
       \/ raw_mode' = raw_mode /\ pc' = "failed"
    /\ UNCHANGED <<tiles, previous_move, iter, swaps, before, before_prev,
                   direction, alt_screen, rendered, events,
                   last_event, won>>

Next ==
    \/ ShuffleStep
    \/ EnableRawMode
    \/ EnterAlternateScreen
    \/ RenderBoard
    \/ ReadArrow
    \/ ReadQuit
    \/ ReadOtherKey
    \/ ReadNonKey
    \/ ReadFails
    \/ LeaveAlternateScreen
    \/ DisableRawMode

Spec == Init /\ [][Next]_vars

\* ---------------------------------------------------- vocabulary of claims

Cells == 0..8

Row(i) == i \div 3

Col(i) == i % 3

\* The solved order: tile i+1 at index i, the blank last.
Goal == [i \in Cells |-> (i + 1) % 9]

\* The index of the blank of a board that has one.
BlankOf(t) == CHOOSE i \in DOMAIN t : t[i] = 0

\* move_tile has been called; LastDir is its argument.
Called == direction # None

LastDir == unwrap(direction)

\* No key has been handled yet: the last move_tile call, if any, was shuffle's.
InShuffleHistory == Called /\ events = 0

\* The precondition of a direction for the blank at index i.
CanMove(i, d) ==
    CASE d = "Up"    -> i + 3 < 9
      [] d = "Down"  -> i >= 3
      [] d = "Left"  -> i % 3 # 2
      [] d = "Right" -> i % 3 # 0

\* The index of the tile that slides into the blank at index i.
SourceOf(i, d) ==
    CASE d = "Up"    -> i + 3
      [] d = "Down"  -> i - 3
      [] d = "Left"  -> i + 1
      [] d = "Right" -> i - 1

\* Inversions among the numbered tiles in row-major order, the blank skipped.
Inversions(t) ==
    Cardinality({p \in Cells \X Cells :
                    /\ p[1] < p[2]
                    /\ t[p[1]] # 0
                    /\ t[p[2]] # 0
                    /\ t[p[1]] > t[p[2]]})

\* The boards one move_tile call away from a board of S.
Moved(S) == {move_tile(t, d) : t \in S, d \in Directions}

\* The boards reachable from those of S by at most n move_tile calls.
RECURSIVE Within(_, _)
Within(S, n) == IF n = 0 THEN S ELSE Within(S \cup Moved(S), n - 1)

\* Some board of S reaches the solved board by at most n move_tile calls.
RECURSIVE ReachesGoal(_, _)
ReachesGoal(S, n) ==
    \/ Goal \in S
    \/ n > 0 /\ ReachesGoal(S \cup Moved(S), n - 1)

\* No more board-changing move_tile calls than this are made in a run.
MaxDistance == MaxSwaps + MaxEvents

\* The boards at most MaxDistance move_tile calls from the constructed one.
NearBoards == Within({new}, MaxDistance)

\* Those of them from which move_tile calls lead to the solved board.
SolvableBoards == {b \in NearBoards : ReachesGoal({b}, MaxDistance)}

\* ------------------------------------------------------------------ claims

\* C1: in every reachable state tiles has length 9 and is a permutation of
\* 0..8 with exactly one 0.
C1_Permutation ==
    /\ DOMAIN tiles = Cells
    /\ len(tiles) = 9
    /\ {tiles[i] : i \in Cells} = Cells
    /\ Cardinality({i \in Cells : tiles[i] = 0}) = 1

\* C1 witness: the board after swaps made by shuffle and by a key of the session.
C1_Witness ==
    /\ swaps >= 2
    /\ events >= 1
    /\ Called
    /\ tiles # before
    /\ tiles # new

\* C2: a move whose precondition holds swaps the blank at i with the tile at
\* i+3 (Up), i-3 (Down), i+1 (Left), i-1 (Right); the other 7 cells keep
\* their values.
C2_LegalMoveSwaps ==
    Called =>
        LET i == BlankOf(before)
            d == LastDir
        IN  CanMove(i, d) =>
               /\ tiles[SourceOf(i, d)] = 0
               /\ tiles[i] = before[SourceOf(i, d)]
               /\ \A j \in Cells \ {i, SourceOf(i, d)} : tiles[j] = before[j]

\* C2 witness: a Down from the blank in the middle row, its precondition at
\* the boundary i = 3..5.
C2_Witness ==
    /\ Called
    /\ LastDir = "Down"
    /\ Row(BlankOf(before)) = 1
    /\ CanMove(BlankOf(before), LastDir)
    /\ BlankOf(tiles) = BlankOf(before) - 3

\* C3: a move into a wall leaves all 9 cells unchanged and signals no error;
\* Left and Right never move the blank to another row.
C3_WallIsNoOp ==
    /\ pc # "panicked"
    /\ Called =>
         LET i == BlankOf(before)
             d == LastDir
         IN  /\ ~CanMove(i, d) => tiles = before
             /\ d \in {"Left", "Right"} => Row(BlankOf(tiles)) = Row(i)

\* C3 witness: a Left with the blank in the rightmost column of an upper row,
\* where index + 1 is on the board.
C3_Witness ==
    /\ Called
    /\ LastDir = "Left"
    /\ Col(BlankOf(before)) = 2
    /\ BlankOf(before) + 1 < 9
    /\ tiles = before

\* C4 as stated: a move in direction d that changes the board moves the blank
\* one grid step in direction d.
C4_BlankMovesWithDirection ==
    (Called /\ tiles # before) =>
        LET i == BlankOf(before)
            j == BlankOf(tiles)
            d == LastDir
        IN  CASE d = "Up"    -> Row(j) = Row(i) - 1 /\ Col(j) = Col(i)
              [] d = "Down"  -> Row(j) = Row(i) + 1 /\ Col(j) = Col(i)
              [] d = "Left"  -> Col(j) = Col(i) - 1 /\ Row(j) = Row(i)
              [] d = "Right" -> Col(j) = Col(i) + 1 /\ Row(j) = Row(i)

\* C4 amended: a move in direction d that changes the board moves a tile one
\* grid step in direction d into the blank, so the blank moves one grid step
\* against d (Up: blank row + 1; Down: blank row - 1; Left: blank column + 1;
\* Right: blank column - 1).
C4_BlankMovesAgainstDirection ==
    (Called /\ tiles # before) =>
        LET i == BlankOf(before)
            j == BlankOf(tiles)
            d == LastDir
        IN  /\ tiles[i] = before[j]
            /\ CASE d = "Up"    -> Row(j) = Row(i) + 1 /\ Col(j) = Col(i)
                 [] d = "Down"  -> Row(j) = Row(i) - 1 /\ Col(j) = Col(i)
                 [] d = "Left"  -> Col(j) = Col(i) + 1 /\ Row(j) = Row(i)
                 [] d = "Right" -> Col(j) = Col(i) - 1 /\ Row(j) = Row(i)

\* C4 witness: an Up that changed the board.
C4_Witness ==
    /\ Called
    /\ LastDir = "Up"
    /\ tiles # before

\* C5: when shuffle returns, the board differs from the solved board and
\* is_solved is false.
C5_ShuffledIsUnsolved ==
    pc = "enable_raw" => (tiles # Goal /\ ~is_solved(tiles))

\* C6: every reachable board has an even number of inversions and the solved
\* board is reachable from it by move_tile calls.
C6_Solvable ==
    /\ Inversions(tiles) % 2 = 0
    /\ tiles \in SolvableBoards

\* C6 witness: a board shuffle returned, at least three swaps from solved
\* with inversions present.
C6_Witness ==
    /\ pc = "enable_raw"
    /\ swaps >= 3
    /\ Inversions(tiles) >= 2
    /\ ~ReachesGoal({tiles}, 2)

\* C7: in shuffle, when iteration k changed the board, the board after
\* iteration k+1 is not the board before iteration k.
C7_NoImmediateUndo ==
    [][(pc = "shuffle" /\ iter >= 1 /\ iter' = iter + 1 /\ tiles # before)
          => tiles' # before]_vars

\* C8: in shuffle the direction attempted in an iteration is never the one
\* attempted in the iteration before, blocked or not; previous_move is the
\* last attempted direction; there are 4 candidates in the first iteration
\* and 3 in every later one, and the choice never fails.
C8_NeverSameDirectionTwice ==
    /\ pc # "panicked"
    /\ InShuffleHistory => /\ previous_move = direction
                           /\ before_prev # direction
                           /\ iter >= 2 => before_prev # None
    /\ pc = "shuffle" => Len(moves(previous_move)) = IF iter = 0 THEN 4 ELSE 3

\* C8 witness: two attempts in a row blocked by a wall.
C8_Witness ==
    /\ pc = "shuffle"
    /\ iter = 2
    /\ swaps = 0
    /\ before_prev # None
    /\ previous_move # None

\* C9: shuffle ends after exactly 100 attempts, each iteration being one
\* attempt; blocked attempts count, so the swaps made are at most the
\* attempts made and at most 100.
C9_ExactlyHundredAttempts ==
    /\ iter <= 100
    /\ pc = "shuffle" <=> iter < 100
    /\ swaps <= iter

\* C9 witness: shuffle has returned after some blocked and some swapping
\* attempts.
C9_Witness ==
    /\ pc = "enable_raw"
    /\ iter = 100
    /\ swaps > 0
    /\ swaps < iter

\* C10: is_solved is true for the board 1,2,3,4,5,6,7,8,0 and for no other
\* reachable board.
C10_SolvedIffGoal ==
    /\ is_solved(tiles) <=> (/\ \A i \in 0..7 : tiles[i] = i + 1
                             /\ tiles[8] = 0)
    /\ won => tiles = Goal

\* C10 witness: a key of the session solved a board that shuffle left unsolved.
C10_Witness ==
    /\ won
    /\ before # Goal
    /\ is_solved(tiles)

\* The opposite of a direction.
Opposite(d) ==
    CASE d = "Up"    -> "Down"
      [] d = "Down"  -> "Up"
      [] d = "Left"  -> "Right"
      [] d = "Right" -> "Left"

\* main has left its loop, by a break or by returning an error.
LoopLeft == pc \in {"leave_alt", "disable_raw", "done", "failed"}

\* The tiles differ by one slide of a tile into the blank.
OneSlide(t, u) ==
    \E d \in Directions :
        LET i == BlankOf(t)
        IN  /\ CanMove(i, d)
            /\ u = [t EXCEPT ![i] = t[SourceOf(i, d)], ![SourceOf(i, d)] = 0]

\* C11: in every reachable state get_blank_position returns the one and only
\* index whose cell is 0, and its unwrap never fails.
C11_BlankPositionUnique ==
    /\ pc # "panicked"
    /\ position_blank(tiles) # None
    /\ get_blank_position(tiles) \in DOMAIN tiles
    /\ tiles[get_blank_position(tiles)] = 0
    /\ \A j \in Cells : tiles[j] = 0 => j = get_blank_position(tiles)
    /\ (pc = "shuffle" /\ iter = 0) => get_blank_position(tiles) = 8

\* C11 witness: moves of shuffle and of the session have taken the blank to
\* the first cell.
C11_Witness ==
    /\ Called
    /\ events >= 1
    /\ tiles # before
    /\ get_blank_position(tiles) = 0

\* C12: whenever main returns a failure, the alternate screen has been left
\* and raw mode is disabled.
C12_RestoredOnFailure ==
    pc = "failed" => (~raw_mode /\ ~alt_screen)

\* C13: every input read follows a render of the board as it is; a step of
\* the loop from the read applies at most one move and leaves the loop
\* exactly when the board after that move is solved; rendering changes no
\* tile.
C13_RenderReadAlternate ==
    /\ [](pc = "read" => rendered = tiles)
    /\ [][/\ pc = "render" => (tiles' = tiles /\ pc' \in {"read", "failed"})
          /\ pc = "read" =>
               /\ pc' # "read"
               /\ tiles' = tiles \/ OneSlide(tiles, tiles')
               /\ last_event' \in {"Arrow", "Other"} =>
                     /\ pc' = "leave_alt" <=> tiles' = Goal
                     /\ pc' = "render" <=> tiles' # Goal]_vars

\* C13 witness: the read that follows the render of a board a key has moved.
C13_Witness ==
    /\ pc = "read"
    /\ last_event = "Arrow"
    /\ tiles # before
    /\ rendered = tiles
    /\ events >= 2

\* C14: a key that is not an arrow, Esc or 'q' neither changes the board nor
\* ends the session.
C14_OtherKeyIgnored ==
    [][(pc = "read" /\ last_event' = "Other")
          => (tiles' = tiles /\ pc' = "render" /\ won' = won)]_vars

\* C15: a newly constructed board is 1,2,3,4,5,6,7,8,0: the blank at index 8
\* and is_solved true.
C15_NewIsSolved ==
    (pc = "shuffle" /\ iter = 0) =>
        /\ len(tiles) = 9
        /\ \A i \in 0..7 : tiles[i] = i + 1
        /\ tiles[8] = 0
        /\ get_blank_position(tiles) = 8
        /\ is_solved(tiles)

\* C15 witness: the board as constructed, before any move_tile call.
C15_Witness ==
    /\ pc = "shuffle"
    /\ iter = 0
    /\ ~Called
    /\ tiles = new

\* C16: for every reachable board and direction, a move_tile that changes the
\* board is undone by a move_tile of the opposite direction; so is the last
\* call made.
C16_OppositeRestores ==
    /\ \A d \in Directions :
          move_tile(tiles, d) # tiles =>
             move_tile(move_tile(tiles, d), Opposite(d)) = tiles
    /\ (Called /\ tiles # before) =>
          move_tile(tiles, Opposite(LastDir)) = before

\* C16 witness: a Down that moved the blank out of a middle cell of the
\* grid's left column, which an Up takes back.
C16_Witness ==
    /\ Called
    /\ LastDir = "Down"
    /\ BlankOf(before) = 3
    /\ tiles # before
    /\ move_tile(tiles, "Up") = before

\* C17: a win is declared only on the solved board and ends the loop; a key
\* other than Esc or 'q' that leaves the board solved declares the win at
\* once.
C17_WinIffSolvedAfterKey ==
    /\ [](won => (tiles = Goal /\ LoopLeft))
    /\ [][(pc = "read" /\ last_event' \in {"Arrow", "Other"} /\ tiles' = Goal)
             => (won' /\ pc' = "leave_alt")]_vars

\* C17 witness: an arrow key slid the last tile home and the session ended
\* as a win.
C17_Witness ==
    /\ won
    /\ last_event = "Arrow"
    /\ tiles # before
    /\ pc = "done"

\* C18: after Esc or 'q' the loop is left with the board as it was rendered
\* before the key, and no win is declared, solved board or not.
C18_QuitEndsAtOnce ==
    last_event = "Quit" =>
        /\ LoopLeft
        /\ ~won
        /\ rendered = tiles

\* C18 witness: a quit on a solved board.
C18_Witness ==
    /\ last_event = "Quit"
    /\ tiles = Goal
    /\ pc = "done"

\* C19: when an arrow key turns an unsolved board into the solved one, the
\* board last rendered is the one before that move; the solved board is not
\* painted.
C19_WinningBoardNotPainted ==
    (won /\ last_event = "Arrow" /\ before # Goal) =>
        /\ rendered = before
        /\ rendered # tiles
        /\ LoopLeft

\* C19 witness: the session is over after a winning move.
C19_Witness ==
    /\ won
    /\ last_event = "Arrow"
    /\ before # Goal
    /\ tiles = Goal
    /\ pc = "done"

====
